---- MODULE Spec2Model ----
(***************************************************************************)
(* Movie recommendation service: the Flask entry point (app.py), the       *)
(* Streamlit entry point (application.py) and the artifact downloader      *)
(* (download_models.py).                                                   *)
(*                                                                         *)
(* Spec      the Flask process: the module-level globals movies_tag,       *)
(*           movie_titles and similarity, the two artifact files on disk,  *)
(*           and request threads that run the route handlers one Python    *)
(*           statement that touches a global at a time.                    *)
(* FuncSpec  the pure routines (the ranking expression and the two         *)
(*           fetch_poster functions) applied to inputs drawn from bounded  *)
(*           sets.                                                         *)
(*                                                                         *)
(* Scores are integers standing for the floats of the matrix (only their   *)
(* order matters to the code); NaN scores are not modelled.                *)
(***************************************************************************)
EXTENDS Integers, Sequences, FiniteSets, TLC

VARIABLES
    movies_tag,     \* global DataFrame: sequence of [title, movie_id]; <<>> is pd.DataFrame()
    movie_titles,   \* global: sequence of titles; <<>> is []
    similarity,     \* global ndarray: sequence of rows; <<>> is np.array([])
    disk,           \* the files movies.pkl and similarity.pkl
    src,            \* ghost: which load_models call assigned movies_tag and similarity
    lastLoad,       \* ghost: outcome of the load_models call that returned most recently
    booted,         \* the module-level load_models() of startup has returned
    th,             \* request threads: position in the handler and its locals
    fnIn,           \* FuncSpec: the inputs of the pure routines
    fnOut           \* FuncSpec: the result of the routine that was applied

vars == <<movies_tag, movie_titles, similarity, disk, src,
          lastLoad, booted, th, fnIn, fnOut>>

sysvars == <<movies_tag, movie_titles, similarity, disk, src,
             lastLoad, booted, th>>

globals == <<movies_tag, movie_titles, similarity>>

-----------------------------------------------------------------------------
(* Bounds of FuncSpec *)

MaxN == 3

MaxScore == 2

MaxK == 4

-----------------------------------------------------------------------------
(* Program constants and artifacts *)

\* recommend(selected_movie, 6) in get_recommendations
NumRecommendations == 6

Placeholder == "https://via.placeholder.com/500x750/333/fff?text=No+Poster"

PosterUrl == "https://image.tmdb.org/t/p/w500/poster_path"

Raised == "raise"

\* outcomes of the remote lookup requests.get(...) of fetch_poster
PosterOutcomes ==
    {"ok", "no_poster_path", "network_error", "timeout", "bad_status", "malformed_body"}

FailureOutcomes == PosterOutcomes \ {"ok"}

\* two generations of the artifact pair; a file on disk holds one of them, is
\* absent, or is no valid pickle
Versions == {"v1", "v2"}

FileStates == {"absent", "corrupt"} \cup Versions

Files == {"movies.pkl", "similarity.pkl"}

\* movies.pkl of a generation
Cat(v) ==
    IF v = "v1"
    THEN << [title |-> "A", movie_id |-> 11], [title |-> "B", movie_id |-> 12] >>
    ELSE << [title |-> "A", movie_id |-> 11], [title |-> "B", movie_id |-> 12],
            [title |-> "C", movie_id |-> 13] >>

\* similarity.pkl of a generation
Mat(v) ==
    IF v = "v1"
    THEN << <<2, 1>>, <<1, 2>> >>
    ELSE << <<2, 1, 1>>, <<1, 2, 0>>, <<1, 0, 2>> >>

\* request.json.get('movie'): catalog titles, a title that differs from a
\* catalog title only in case, and the empty selection
Titles == {"A", "C", "a", ""}

\* the threaded server runs each request on a thread of its own; the model keeps
\* one request that can call load_models (startup, /reload_models,
\* /recommendations) and one other request (/, /health, /get_recommendations)
\* in flight at a time
LoadThread == "t1"

ServeThread == "t2"

Threads == {LoadThread, ServeThread}

-----------------------------------------------------------------------------
(* Pure routines *)

Min(a, b) == IF a <= b THEN a ELSE b

\* list(enumerate(distances)): pairs <<index, score>>, index from 0
enumerate(distances) == [i \in 1..Len(distances) |-> <<i - 1, distances[i]>>]

\* a sort that puts equal scores in descending index order
keeps_place_unstable(e, x) == e[2] > x[2]

\* sorted(..., reverse=True, key=lambda x: x[1]) is stable: an element e already
\* placed stays ahead of a later element x unless x's score is strictly greater
keeps_place(e, x) == e[2] >= x[2]

\* x put behind every element of the descending sequence s that keeps its place
insert_sorted(s, x) ==
    LET c == Cardinality({j \in 1..Len(s) : keeps_place(s[j], x)})
    IN  SubSeq(s, 1, c) \o <<x>> \o SubSeq(s, c + 1, Len(s))

RECURSIVE sorted_reverse(_)
sorted_reverse(pairs) ==
    IF pairs = <<>>
    THEN <<>>
    ELSE insert_sorted(sorted_reverse(SubSeq(pairs, 1, Len(pairs) - 1)), pairs[Len(pairs)])

\* the Python slice s[lo:hi] for 0 <= lo
slice(s, lo, hi) ==
    IF lo >= Min(hi, Len(s)) THEN <<>> ELSE SubSeq(s, lo + 1, Min(hi, Len(s)))

\* sorted(list(enumerate(distances)), reverse=True, key=lambda x: x[1])[1:k+1]
movies_list_of(distances, k) == slice(sorted_reverse(enumerate(distances)), 1, k + 1)

\* fetch_poster without its try/except: a failed lookup raises
fetch_poster_unguarded(outcome) == IF outcome = "ok" THEN PosterUrl ELSE Raised

\* app.py fetch_poster: every failure and a body without poster_path give the placeholder
fetch_poster(outcome) == IF outcome = "ok" THEN PosterUrl ELSE Placeholder

\* application.py fetch_poster: no try/except, no timeout, no raise_for_status;
\* the set of results the call can have for an outcome of the lookup
fetch_poster_streamlit(outcome) ==
    CASE outcome = "ok"             -> {PosterUrl}
      [] outcome = "no_poster_path" -> {"None"}
      [] outcome = "network_error"  -> {Raised}
      [] outcome = "timeout"        -> {Raised, "hang"}
      [] outcome = "bad_status"     -> {"None", Raised}
      [] outcome = "malformed_body" -> {Raised}

\* upper-casing of the titles in use
upper(t) == IF t = "a" THEN "A" ELSE t

\* a title comparison that ignores case
matches_caseless(catalog, movie) ==
    {i \in 1..Len(catalog) : upper(catalog[i].title) = upper(movie)}

\* movies_tag[movies_tag['title'] == movie]: the rows whose title equals movie exactly
matches(catalog, movie) == {i \in 1..Len(catalog) : catalog[i].title = movie}

\* matches.index[0] as a 0-based position: the first matching row
first_index(m) == (CHOOSE i \in m : \A j \in m : i <= j) - 1

\* movies_tag['title'].values
title_values(catalog) == [i \in 1..Len(catalog) |-> catalog[i].title]

\* movies_tag.empty or similarity.size == 0
NotReady == movies_tag = <<>> \/ similarity = <<>>

\* not movies_tag.empty and similarity.size > 0
ModelsLoaded == movies_tag # <<>> /\ similarity # <<>>

\* a failed load of similarity.pkl that leaves the old matrix in place
similarity_kept(old) == old

\* lines 76 and 80: similarity = np.array([])
similarity_on_error(old) == <<>>

\* a reload on every visit of the page
NoMoviesAvailable_always == TRUE

\* len(movie_titles) == 0
NoMoviesAvailable == Len(movie_titles) = 0

-----------------------------------------------------------------------------
(* Request threads *)

NoResp == [kind |-> "none", success |-> FALSE, error |-> "", models_loaded |-> FALSE,
           movies_count |-> 0]

\* the candidate being processed by the loop of recommend, with what its
\* processing met: whether movies_tag.iloc[i] found a row at line 135 and at
\* line 142 ("n/a": not reached) and whether the remote lookup succeeded
NoItem == [index |-> 0, score |-> 0, in135 |-> FALSE, lookup |-> "n/a", in142 |-> "n/a",
           movie_id |-> 0, poster |-> ""]

Idle ==
    [pc |-> "idle", kind |-> "none", title |-> "", movie_index |-> 0,
     movies_list |-> <<>>, idx |-> 0, recs |-> <<>>, log |-> <<>>,
     item |-> NoItem, ranked |-> FALSE,
     cat_len |-> 0, mixed |-> FALSE,
     saw_empty |-> FALSE, after_failed |-> FALSE,
     resp |-> NoResp]

LoadPcs == {"ensure", "l38", "l39", "l40", "l46", "l54", "l59", "l60", "l71", "l76"}

InLoad(t) == th[t].pc \in LoadPcs

\* no load_models call is running
Quiescent == \A t \in Threads : ~InLoad(t)

\* the most recent load_models call returned False and no later call has begun
Degraded == Quiescent /\ lastLoad = "false"

\* src numbers the load_models calls in the order they began (0: the
\* module-level initialisation of lines 86-88): src.movies and src.sim are the
\* calls that last assigned movies_tag and similarity, src.load is the call now
\* running, src.cat the call whose movies_tag a recommend in progress has read
\* at line 123. Only the order of the numbers matters, so they are kept dense.
Dense(g) ==
    [s \in DOMAIN g |-> Cardinality({g[u] : u \in DOMAIN g} \cap 0..(g[s] - 1))]

\* slots that refer to no call in progress follow src.movies
Settle(g, loading, reading) ==
    Dense([g EXCEPT !.load = IF loading THEN g.load ELSE g.movies,
                    !.cat = IF reading THEN g.cat ELSE g.movies])

Reading(t) == th[t].pc = "r129"

Loading == \E t \in Threads : InLoad(t)

ReadingAny == \E t \in Threads : Reading(t)

\* a number for a call that begins now
NewLoad == 1 + CHOOSE n \in {src[s] : s \in DOMAIN src} : \A s \in DOMAIN src : src[s] <= n

JsonFail(e) == [NoResp EXCEPT !.kind = "json", !.error = e]

JsonOk == [NoResp EXCEPT !.kind = "json", !.success = TRUE]

-----------------------------------------------------------------------------
(* load_models, called at startup, by /reload_models and by /recommendations *)

\* a thread enters load_models
EnterLoad(t, kind, empty) ==
    th' = [th EXCEPT ![t] = [Idle EXCEPT !.pc = "ensure", !.kind = kind,
                                         !.saw_empty = empty]]

\* the caller's statements after load_models returned result
AfterLoad(t, result) ==
    CASE th[t].kind = "startup" -> Idle
      [] th[t].kind = "reload" ->
            [Idle EXCEPT !.pc = "done", !.kind = "reload",
                         !.resp = IF result
                                  THEN [JsonOk EXCEPT !.movies_count = Len(movie_titles)]
                                  ELSE JsonFail("Failed to reload models")]
      [] OTHER -> [Idle EXCEPT !.pc = "p167", !.kind = th[t].kind,
                               !.saw_empty = th[t].saw_empty]

ReturnLoad(t, result) ==
    /\ th' = [th EXCEPT ![t] = AfterLoad(t, result)]
    /\ lastLoad' = (IF result THEN "true" ELSE "false")
    /\ booted' = (booted \/ th[t].kind = "startup")

Goto(t, pc) == th' = [th EXCEPT ![t].pc = pc]

\* what download_models leaves of a file it found in state s: a missing file is
\* fetched and kept when it unpickles, a file that does not unpickle is removed
\* and fetched again, a valid file is left alone
download_models(s) ==
    CASE s = "absent"  -> Versions \cup {"absent"}
      [] s = "corrupt" -> Versions \cup {"corrupt", "absent"}
      [] OTHER         -> {s}

\* ensure_models_exist: download_models runs when a file is missing and its
\* result is not looked at; only a failed import gives False
ensure_models_exist(t) ==
    /\ th[t].pc = "ensure"
    /\ IF disk["movies.pkl"] # "absent" /\ disk["similarity.pkl"] # "absent"
       THEN Goto(t, "l46") /\ UNCHANGED disk
       ELSE \E importable \in BOOLEAN :
              IF importable
              THEN /\ \E d \in [Files -> FileStates] :
                        /\ \A f \in Files : d[f] \in download_models(disk[f])
                        /\ disk' = d
                   /\ Goto(t, "l46")
              ELSE Goto(t, "l38") /\ UNCHANGED disk
    /\ UNCHANGED <<globals, src, lastLoad, booted, fnIn, fnOut>>

\* line 38: movies_tag = pd.DataFrame()
load_l38(t) ==
    /\ th[t].pc = "l38"
    /\ movies_tag' = <<>>
    /\ src' = Settle([src EXCEPT !.movies = src.load], TRUE, ReadingAny)
    /\ Goto(t, "l39")
    /\ UNCHANGED <<movie_titles, similarity, disk, lastLoad, booted, fnIn, fnOut>>

\* line 39: movie_titles = []
load_l39(t) ==
    /\ th[t].pc = "l39"
    /\ movie_titles' = <<>>
    /\ Goto(t, "l40")
    /\ UNCHANGED <<movies_tag, similarity, disk, src, lastLoad, booted, fnIn, fnOut>>

\* lines 40-41: similarity = np.array([]); return False
load_l40(t) ==
    /\ th[t].pc = "l40"
    /\ similarity' = <<>>
    /\ src' = Settle([src EXCEPT !.sim = src.load], FALSE, ReadingAny)
    /\ ReturnLoad(t, FALSE)
    /\ UNCHANGED <<movies_tag, movie_titles, disk, fnIn, fnOut>>

\* lines 46-52: movies_tag = the unpickled table, or the except branch
load_l46(t) ==
    /\ th[t].pc = "l46"
    /\ IF disk["movies.pkl"] \in Versions
       THEN /\ movies_tag' = Cat(disk["movies.pkl"])
            /\ src' = Settle([src EXCEPT !.movies = src.load], TRUE, ReadingAny)
            /\ Goto(t, "l54")
       ELSE Goto(t, "l59") /\ UNCHANGED <<movies_tag, src>>
    /\ UNCHANGED <<movie_titles, similarity, disk, lastLoad, booted, fnIn, fnOut>>

\* line 54: movie_titles = movies_tag['title'].values (KeyError on an empty frame)
load_l54(t) ==
    /\ th[t].pc = "l54"
    /\ IF movies_tag = <<>>
       THEN Goto(t, "l59") /\ UNCHANGED movie_titles
       ELSE movie_titles' = title_values(movies_tag) /\ Goto(t, "l71")
    /\ UNCHANGED <<movies_tag, similarity, disk, src, lastLoad, booted, fnIn, fnOut>>

\* lines 59 and 64: movies_tag = pd.DataFrame()
load_l59(t) ==
    /\ th[t].pc = "l59"
    /\ movies_tag' = <<>>
    /\ src' = Settle([src EXCEPT !.movies = src.load], TRUE, ReadingAny)
    /\ Goto(t, "l60")
    /\ UNCHANGED <<movie_titles, similarity, disk, lastLoad, booted, fnIn, fnOut>>

\* lines 60-61 and 65-66: movie_titles = []; return False
load_l60(t) ==
    /\ th[t].pc = "l60"
    /\ movie_titles' = <<>>
    /\ src' = Settle(src, FALSE, ReadingAny)
    /\ ReturnLoad(t, FALSE)
    /\ UNCHANGED <<movies_tag, similarity, disk, fnIn, fnOut>>

\* lines 71-72 and 83: similarity = the unpickled matrix; return True
load_l71(t) ==
    /\ th[t].pc = "l71"
    /\ IF disk["similarity.pkl"] \in Versions
       THEN /\ similarity' = Mat(disk["similarity.pkl"])
            /\ src' = Settle([src EXCEPT !.sim = src.load], FALSE, ReadingAny)
            /\ ReturnLoad(t, TRUE)
       ELSE Goto(t, "l76") /\ UNCHANGED <<similarity, src, lastLoad, booted>>
    /\ UNCHANGED <<movies_tag, movie_titles, disk, fnIn, fnOut>>

\* lines 76-77 and 80-81: similarity = np.array([]); return False
load_l76(t) ==
    /\ th[t].pc = "l76"
    /\ similarity' = similarity_on_error(similarity)
    /\ src' = Settle([src EXCEPT !.sim = src.load], FALSE, ReadingAny)
    /\ ReturnLoad(t, FALSE)
    /\ UNCHANGED <<movies_tag, movie_titles, disk, fnIn, fnOut>>

-----------------------------------------------------------------------------
(* Route handlers *)

Arrives(t) == booted /\ th[t].pc = "idle"

Loads(t) == Arrives(t) /\ t = LoadThread

Serves(t) == Arrives(t) /\ t = ServeThread

Respond(t, r) == th' = [th EXCEPT ![t] = r]

\* GET /
home(t) ==
    /\ Serves(t)
    /\ Respond(t, [Idle EXCEPT !.pc = "done", !.kind = "home",
                               !.resp = [NoResp EXCEPT !.kind = "html"]])
    /\ UNCHANGED <<globals, disk, src, lastLoad, booted, fnIn, fnOut>>

\* GET /health
health_check(t) ==
    /\ Serves(t)
    /\ Respond(t, [Idle EXCEPT !.pc = "done", !.kind = "health",
                               !.after_failed = Degraded,
                               !.resp = [NoResp EXCEPT !.kind = "json",
                                                       !.models_loaded = ModelsLoaded,
                                                       !.movies_count = Len(movie_titles)]])
    /\ UNCHANGED <<globals, disk, src, lastLoad, booted, fnIn, fnOut>>

\* GET /reload_models
reload_models(t) ==
    /\ Loads(t)
    /\ EnterLoad(t, "reload", FALSE)
    /\ src' = Settle([src EXCEPT !.load = NewLoad], TRUE, ReadingAny)
    /\ UNCHANGED <<globals, disk, lastLoad, booted, fnIn, fnOut>>

\* GET /recommendations, line 163: load_models() when no title is held
recommendations_page(t) ==
    /\ Loads(t)
    /\ IF NoMoviesAvailable
       THEN /\ EnterLoad(t, "recs_page", Len(movie_titles) = 0)
            /\ src' = Settle([src EXCEPT !.load = NewLoad], TRUE, ReadingAny)
       ELSE /\ Respond(t, [Idle EXCEPT !.pc = "p167", !.kind = "recs_page"])
            /\ UNCHANGED src
    /\ UNCHANGED <<globals, disk, lastLoad, booted, fnIn, fnOut>>

\* line 167: render_template('recommendations.html', movies=movie_titles)
recommendations_render(t) ==
    /\ th[t].pc = "p167"
    /\ Respond(t, [th[t] EXCEPT !.pc = "done",
                                !.resp = [NoResp EXCEPT !.kind = "html",
                                                        !.movies_count = Len(movie_titles)]])
    /\ UNCHANGED <<globals, disk, src, lastLoad, booted, fnIn, fnOut>>

\* recommend returned recs to get_recommendations (lines 185-195)
Returned(r, recs) ==
    [r EXCEPT !.pc = "done", !.recs = recs, !.item = NoItem,
              !.resp = IF recs = <<>> THEN JsonFail("No recommendations found") ELSE JsonOk]

\* POST /get_recommendations, lines 173-183
get_recommendations(t) ==
    /\ Serves(t)
    /\ \E title \in Titles :
         LET r == [Idle EXCEPT !.kind = "post", !.title = title, !.after_failed = Degraded]
         IN  Respond(t,
                 IF NotReady
                 THEN [r EXCEPT !.pc = "done", !.resp = JsonFail("not ready")]
                 ELSE IF title = ""
                 THEN [r EXCEPT !.pc = "done", !.resp = JsonFail("No movie selected")]
                 ELSE [r EXCEPT !.pc = "r118"])
    /\ UNCHANGED <<globals, disk, src, lastLoad, booted, fnIn, fnOut>>

\* recommend, line 118
recommend_l118(t) ==
    /\ th[t].pc = "r118"
    /\ Respond(t, IF NotReady THEN Returned(th[t], <<>>) ELSE [th[t] EXCEPT !.pc = "r123"])
    /\ UNCHANGED <<globals, disk, src, lastLoad, booted, fnIn, fnOut>>

\* recommend, lines 123-128: KeyError on an empty frame and no match both return []
recommend_l123(t) ==
    /\ th[t].pc = "r123"
    /\ LET m == matches(movies_tag, th[t].title)
       IN  Respond(t,
               IF movies_tag = <<>> \/ m = {}
               THEN Returned(th[t], <<>>)
               ELSE [th[t] EXCEPT !.pc = "r129", !.movie_index = first_index(m),
                                  !.cat_len = Len(movies_tag)])
    /\ src' = Settle([src EXCEPT !.cat = src.movies], Loading, TRUE)
    /\ UNCHANGED <<globals, disk, lastLoad, booted, fnIn, fnOut>>

\* recommend, lines 129-130: IndexError when the matrix has no such row
recommend_l129(t) ==
    /\ th[t].pc = "r129"
    /\ Respond(t,
           IF th[t].movie_index >= Len(similarity)
           THEN Returned(th[t], <<>>)
           ELSE LET ml == movies_list_of(similarity[th[t].movie_index + 1],
                                         NumRecommendations)
                    r  == [th[t] EXCEPT !.movies_list = ml, !.ranked = TRUE,
                                        !.mixed = (src.cat # src.sim), !.idx = 1]
                IN  IF ml = <<>> THEN Returned(r, <<>>) ELSE [r EXCEPT !.pc = "r135"])
    /\ src' = Settle(src, Loading, FALSE)
    /\ UNCHANGED <<globals, disk, lastLoad, booted, fnIn, fnOut>>

\* the loop moves to the next candidate, or recommend returns
NextItem(r, recs, entry) ==
    LET q == [r EXCEPT !.recs = recs, !.log = Append(r.log, entry), !.item = NoItem]
    IN  IF r.idx >= Len(r.movies_list)
        THEN Returned(q, recs)
        ELSE [q EXCEPT !.idx = r.idx + 1, !.pc = "r135"]

\* recommend, lines 135-139: movies_tag.iloc[i].movie_id, then fetch_poster;
\* an exception drops the candidate (lines 147-149)
recommend_l135(t) ==
    /\ th[t].pc = "r135"
    /\ LET c  == th[t].movies_list[th[t].idx]
           it == [NoItem EXCEPT !.index = c[1], !.score = c[2]]
       IN  IF c[1] >= Len(movies_tag)
           THEN Respond(t, NextItem(th[t], th[t].recs, it))
           ELSE \E outcome \in PosterOutcomes :
                  LET p  == fetch_poster(outcome)
                      jt == [it EXCEPT !.in135 = TRUE,
                                       !.lookup = IF outcome = "ok" THEN "ok" ELSE "failed",
                                       !.movie_id = movies_tag[c[1] + 1].movie_id,
                                       !.poster = p]
                  IN  Respond(t, IF p = Raised
                                 THEN NextItem(th[t], th[t].recs, [jt EXCEPT !.poster = ""])
                                 ELSE [th[t] EXCEPT !.pc = "r142", !.item = jt])
    /\ UNCHANGED <<globals, disk, src, lastLoad, booted, fnIn, fnOut>>

\* recommend, lines 141-146: movies_tag.iloc[i].title and the append
recommend_l142(t) ==
    /\ th[t].pc = "r142"
    /\ LET it == th[t].item
       IN  Respond(t,
               IF it.index >= Len(movies_tag)
               THEN NextItem(th[t], th[t].recs, [it EXCEPT !.in142 = "no"])
               ELSE NextItem(th[t],
                             Append(th[t].recs,
                                    [index |-> it.index,
                                     title |-> movies_tag[it.index + 1].title,
                                     similarity_score |-> it.score,
                                     poster_url |-> it.poster,
                                     movie_id |-> it.movie_id]),
                             [it EXCEPT !.in142 = "yes"]))
    /\ UNCHANGED <<globals, disk, src, lastLoad, booted, fnIn, fnOut>>

\* the response is sent and the thread takes the next request
Finish(t) ==
    /\ th[t].pc = "done"
    /\ Respond(t, Idle)
    /\ UNCHANGED <<globals, disk, src, lastLoad, booted, fnIn, fnOut>>

\* the deployment replaces, removes or damages an artifact file
EnvDisk ==
    /\ \E f \in Files : \E s \in FileStates \ {disk[f]} : disk' = [disk EXCEPT ![f] = s]
    /\ UNCHANGED <<globals, src, lastLoad, booted, th, fnIn, fnOut>>

-----------------------------------------------------------------------------
(* The Flask process *)

NoFnIn == [distances |-> <<>>, position |-> 0, k |-> 0]

NoFnOut == [kind |-> "none", list |-> <<>>, entry |-> "", outcome |-> "", result |-> ""]

\* lines 86-92: the globals are empty and the main thread is about to run load_models()
SysInit ==
    /\ movies_tag = <<>>
    /\ movie_titles = <<>>
    /\ similarity = <<>>
    /\ src = [movies |-> 0, sim |-> 0, load |-> 1, cat |-> 0]
    /\ lastLoad = "none"
    /\ booted = FALSE
    /\ th = [t \in Threads |->
               IF t = LoadThread
               THEN [Idle EXCEPT !.pc = "ensure", !.kind = "startup"]
               ELSE Idle]

Init ==
    /\ SysInit
    /\ disk \in [Files -> FileStates]
    /\ fnIn = NoFnIn
    /\ fnOut = NoFnOut

Next ==
    \/ \E t \in Threads : ensure_models_exist(t)
    \/ \E t \in Threads : load_l38(t)
    \/ \E t \in Threads : load_l39(t)
    \/ \E t \in Threads : load_l40(t)
    \/ \E t \in Threads : load_l46(t)
    \/ \E t \in Threads : load_l54(t)
    \/ \E t \in Threads : load_l59(t)
    \/ \E t \in Threads : load_l60(t)
    \/ \E t \in Threads : load_l71(t)
    \/ \E t \in Threads : load_l76(t)
    \/ \E t \in Threads : home(t)
    \/ \E t \in Threads : health_check(t)
    \/ \E t \in Threads : reload_models(t)
    \/ \E t \in Threads : recommendations_page(t)
    \/ \E t \in Threads : recommendations_render(t)
    \/ \E t \in Threads : get_recommendations(t)
    \/ \E t \in Threads : recommend_l118(t)
    \/ \E t \in Threads : recommend_l123(t)
    \/ \E t \in Threads : recommend_l129(t)
    \/ \E t \in Threads : recommend_l135(t)
    \/ \E t \in Threads : recommend_l142(t)
    \/ \E t \in Threads : Finish(t)
    \/ EnvDisk

Spec == Init /\ [][Next]_vars

-----------------------------------------------------------------------------
(* The pure routines applied to bounded inputs *)

\* rows of a similarity matrix: up to MaxN scores in 0..MaxScore
Rows == UNION {[1..n -> 0..MaxScore] : n \in 1..MaxN}

FnInputs ==
    UNION {{[distances |-> d, position |-> p, k |-> k] :
               p \in 0..(Len(d) - 1), k \in 0..MaxK} : d \in Rows}

FnInit ==
    /\ SysInit
    /\ disk = [f \in Files |-> "absent"]
    /\ fnIn \in FnInputs
    /\ fnOut = NoFnOut

\* lines 129-130 of app.py, 25-26 of application.py, on row fnIn.position
FnRank ==
    /\ fnOut.kind = "none"
    /\ fnOut' = [NoFnOut EXCEPT !.kind = "rank",
                                !.list = movies_list_of(fnIn.distances, fnIn.k)]
    /\ UNCHANGED <<sysvars, fnIn>>

\* app.py fetch_poster on an outcome of the remote lookup
FnPosterFlask ==
    /\ fnOut.kind = "none"
    /\ \E outcome \in PosterOutcomes :
         fnOut' = [NoFnOut EXCEPT !.kind = "poster", !.entry = "app.py",
                                  !.outcome = outcome, !.result = fetch_poster(outcome)]
    /\ UNCHANGED <<sysvars, fnIn>>

\* application.py fetch_poster on an outcome of the remote lookup
FnPosterStreamlit ==
    /\ fnOut.kind = "none"
    /\ \E outcome \in PosterOutcomes : \E r \in fetch_poster_streamlit(outcome) :
         fnOut' = [NoFnOut EXCEPT !.kind = "poster", !.entry = "application.py",
                                  !.outcome = outcome, !.result = r]
    /\ UNCHANGED <<sysvars, fnIn>>

FnNext == FnRank \/ FnPosterFlask \/ FnPosterStreamlit

FuncSpec == FnInit /\ [][FnNext]_vars

-----------------------------------------------------------------------------
(* Properties *)

\* C1: the ranked list derived from row p (sort descending, slice [1:k+1])
\* holds no pair whose index is p
C1_SelfExcluded ==
    fnOut.kind = "rank" =>
        \A j \in 1..Len(fnOut.list) : fnOut.list[j][1] # fnIn.position

\* C2: for a catalog of length N the ranked list of recommend has exactly
\* min(k, N-1) pairs, with pairwise distinct indices
C2_ResultSize ==
    \A t \in Threads :
        th[t].ranked =>
            /\ Len(th[t].movies_list) = Min(NumRecommendations, th[t].cat_len - 1)
            /\ \A a, b \in 1..Len(th[t].movies_list) :
                 a # b => th[t].movies_list[a][1] # th[t].movies_list[b][1]

\* C3: the ranked list is in non-increasing score order, and entries of equal
\* score are in ascending index order
C3_Ordering ==
    fnOut.kind = "rank" =>
        \A a, b \in 1..Len(fnOut.list) :
            a < b =>
                \/ fnOut.list[a][2] > fnOut.list[b][2]
                \/ /\ fnOut.list[a][2] = fnOut.list[b][2]
                   /\ fnOut.list[a][1] < fnOut.list[b][1]

\* a ranked list that holds two entries of equal score
C3_Witness ==
    /\ fnOut.kind = "rank"
    /\ \E a, b \in 1..Len(fnOut.list) : a < b /\ fnOut.list[a][2] = fnOut.list[b][2]

\* the title equals the title of no entry of any catalog, exactly
UnknownTitle(title) ==
    \A v \in Versions : \A i \in 1..Len(Cat(v)) : Cat(v)[i].title # title

\* C4: for a title that equals no catalog title exactly, recommend returns an
\* empty list and POST /get_recommendations answers success=false with an error
\* message
C4_UnknownTitle ==
    \A t \in Threads :
        (th[t].kind = "post" /\ th[t].pc = "done" /\ UnknownTitle(th[t].title)) =>
            /\ th[t].recs = <<>>
            /\ th[t].resp.kind = "json"
            /\ ~th[t].resp.success
            /\ th[t].resp.error # ""

\* recommend itself turned down a title that differs from a catalog title in case
C4_Witness ==
    \E t \in Threads :
        /\ th[t].kind = "post" /\ th[t].pc = "done" /\ th[t].title = "a"
        /\ th[t].resp.error = "No recommendations found"
        /\ ModelsLoaded

\* C5: for every failed remote lookup, fetch_poster of either entry point
\* returns the placeholder URL and does not raise
C5_PosterNeverFails ==
    (fnOut.kind = "poster" /\ fnOut.outcome \in FailureOutcomes) =>
        fnOut.result = Placeholder

\* C6: a request handled after the most recent load_models call returned False
\* (no later call begun) gets models_loaded=false from /health and
\* success=false from /get_recommendations, whatever the title
C6_DegradedAfterFailedLoad ==
    \A t \in Threads :
        (th[t].pc = "done" /\ th[t].after_failed) =>
            /\ th[t].kind = "health" => ~th[t].resp.models_loaded
            /\ th[t].kind = "post" => (th[t].resp.kind = "json" /\ ~th[t].resp.success)

\* /health answered after a reload that failed on movies.pkl and left the matrix
\* of an earlier, successful load in place
C6_Witness ==
    \E t \in Threads :
        /\ th[t].pc = "done" /\ th[t].kind = "health" /\ th[t].after_failed
        /\ similarity # <<>>
        /\ ~th[t].resp.models_loaded

\* C7: the catalog and the matrix one recommend call reads were assigned by the
\* same load_models call
C7_AtomicReload == \A t \in Threads : th[t].kind = "post" => ~th[t].mixed

\* the request a step of thread t belongs to, and whether it found no titles
StepKind(t) == IF th[t].kind = "none" THEN th'[t].kind ELSE th[t].kind

StepSawEmpty(t) == IF th[t].kind = "none" THEN th'[t].saw_empty ELSE th[t].saw_empty

\* C8: no step of GET /, GET /recommendations, POST /get_recommendations or
\* GET /health changes movies_tag, movie_titles or similarity
C8_HandlersReadOnly ==
    [][\A t \in Threads :
          (th'[t] # th[t] /\ StepKind(t) \in {"home", "recs_page", "post", "health"})
              => UNCHANGED globals]_vars

\* C8 as amended: GET /recommendations changes them only when it found
\* movie_titles empty and so ran load_models
C8_HandlersReadOnlyUnlessEmpty ==
    [][\A t \in Threads :
          (/\ th'[t] # th[t]
           /\ \/ StepKind(t) \in {"home", "post", "health"}
              \/ StepKind(t) = "recs_page" /\ ~StepSawEmpty(t))
              => UNCHANGED globals]_vars

\* GET /recommendations served from a non-empty movie_titles, without a load
C8_Witness ==
    \E t \in Threads :
        /\ th[t].kind = "recs_page" /\ th[t].pc = "done" /\ ~th[t].saw_empty
        /\ th[t].resp.movies_count > 0

\* C9: whenever the system reports ready with no load running, the catalog
\* length equals the dimension of the matrix on both axes
C9_Dimension ==
    (Quiescent /\ ModelsLoaded) =>
        /\ Len(similarity) = Len(movies_tag)
        /\ \A i \in 1..Len(similarity) : Len(similarity[i]) = Len(movies_tag)

\* the candidate's own lookups found its row (no exception dropped it)
Kept(e) == e.in135 /\ e.in142 # "no"

\* C10: the list recommend builds is the ranked list, in order, less exactly the
\* candidates whose catalog lookup raised; a failed poster lookup keeps the
\* candidate with the placeholder, and every candidate is processed
C10_BestEffort ==
    \A t \in Threads :
        th[t].kind = "post" =>
            LET kept == SelectSeq(th[t].log, Kept)
            IN  /\ \A j \in 1..Len(th[t].log) :
                     /\ th[t].log[j].index = th[t].movies_list[j][1]
                     /\ th[t].log[j].score = th[t].movies_list[j][2]
                /\ Len(th[t].recs) = Len(kept)
                /\ \A j \in 1..Len(kept) :
                     /\ th[t].recs[j].index = kept[j].index
                     /\ th[t].recs[j].similarity_score = kept[j].score
                     /\ th[t].recs[j].poster_url =
                            (IF kept[j].lookup = "ok" THEN PosterUrl ELSE Placeholder)
                /\ (th[t].pc = "done" /\ th[t].ranked) =>
                       Len(th[t].log) = Len(th[t].movies_list)

\* a finished recommend that dropped a candidate whose lookup raised and kept
\* one whose poster lookup failed
C10_Witness ==
    \E t \in Threads :
        /\ th[t].kind = "post" /\ th[t].pc = "done" /\ th[t].resp.success
        /\ \E j \in 1..Len(th[t].log) : ~Kept(th[t].log[j])
        /\ \E j \in 1..Len(th[t].recs) : th[t].recs[j].poster_url = Placeholder

====
